---- MODULE Spec2Model ----
(***************************************************************************)
(* Verification model of three parts of the Citra Qt frontend:             *)
(*   - AudioCore::HLE::FDKDecoder (src/audio_core/hle/fdk_decoder.cpp)      *)
(*   - EmuThread::run and GRenderWindow (src/citra_qt/bootmanager.cpp)      *)
(*   - ConfigureGraphics (src/citra_qt/configuration/configure_graphics.cpp)*)
(* Each part has its own specification over the shared variable tuple;    *)
(* the variables of the other parts stay at their initial values.          *)
(***************************************************************************)
EXTENDS Integers, Sequences, FiniteSets, TLC

VARIABLES
    \* ---- FDKDecoder::Impl and the fdk-aac library behind it
    dphase,      \* "unconstructed" | "alive" | "called" | "destroyed": lifetime of the
                 \* Impl object; "called" while a ProcessRequest call is in progress
    decoder,     \* HANDLE_AACDECODER decoder: "null" or "h"
    libHandle,   \* the library's view of handle h: "none" | "open" | "closed"
    opens,       \* number of successful aacDecoder_Open calls
    closes,      \* number of aacDecoder_Close calls on a handle that was opened
    request,     \* the BinaryMessage handled by the last ProcessRequest
    response,    \* what the last ProcessRequest returned (tag "none" = std::nullopt)
    libCalls,    \* codec-library calls made by the last operation
    mem,         \* FCRAM accesses made by the last operation
    out_streams, \* sizes of out_streams[0] and [1] when the last Decode returned
    libAnswers,  \* what the library answered to the constructor's calls
    \* ---- EmuThread
    epc,          \* position of the emulation thread in EmuThread::run
    running,      \* std::atomic<bool> running
    exec_step,    \* std::atomic<bool> exec_step
    stop_run,     \* std::atomic<bool> stop_run
    was_active,   \* local of run
    running_mutex,\* holder of running_mutex: "free" | "emu"
    cpc,          \* position of the controlling (GUI) thread: "idle" | "stopping"
    prevSignal,   \* the DebugMode signal emitted before lastSignal ("none" if none)
    lastSignal,   \* the most recent of DebugModeLeft / DebugModeEntered ("none" if none)
    lastError,    \* result carried by the most recent ErrorThrown ("none" if none)
    lastResult,   \* result of the most recent RunLoop call ("none" if none)
    iterEntered,  \* DebugModeEntered was emitted in the current loop iteration
    shutdowns,    \* number of system.Shutdown() calls
    lateCall,     \* RunLoop or SingleStep was called after Shutdown
    \* ---- Settings::values and the ConfigureGraphics dialog
    cfg_global,   \* Settings::IsConfiguringGlobal()
    powered_on,   \* Core::System::GetInstance().IsPoweredOn()
    vulkan_ok,    \* creating a Vulkan::Instance succeeds on this machine
    settings,     \* the switchable settings: name -> [value, custom, use_global]
    use_shader_jit, \* Settings::values.use_shader_jit (a plain setting)
    gphase,       \* "none" | "open": whether a ConfigureGraphics dialog exists
    ui,           \* the widgets of the dialog
    trackers,     \* the CheckState members of the dialog, one per check box
    physical_devices_discovered, \* member of the dialog
    lastOp,       \* the dialog operation that ran last
    visibility_index, \* the index SetPhysicalDeviceComboVisibility was last called with
    \* ---- GRenderWindow, one object per window
    has_parent,   \* parent() != nullptr
    widget_geometry, \* the geometry the QWidget has now
    geometry,     \* QByteArray geometry: the backup
    child_widget, \* "null" | "Software" | "OpenGL" | "Vulkan"
    main_context, \* static main_context: "null" | "OpenGLSharedContext" | "DummyContext"
    fault,        \* "none" | "bad_cast" | "crashed": a cast of main_context to the wrong type
    backup_taken, \* what QWidget::saveGeometry() gave at the most recent backup
    saved,        \* the value the last saveGeometry call returned
    wop,          \* the window operation that ran last, and its window
    \* ---- GRenderWindow input
    touch,        \* EmuWindow touch state: [pressed, x]
    tilt,         \* MotionEmu tilt state: [active, x]
    icalls,       \* the functions the last event handler called
    ievent        \* the last event handled: [handler, source, button]

dvars == <<dphase, decoder, libHandle, opens, closes, request, response, libCalls, mem,
          out_streams, libAnswers>>

evars == <<epc, running, exec_step, stop_run, was_active, running_mutex, cpc,
          prevSignal, lastSignal, lastError, lastResult, iterEntered, shutdowns, lateCall>>

gvars == <<cfg_global, powered_on, vulkan_ok, settings, use_shader_jit, gphase, ui, trackers,
          physical_devices_discovered, lastOp, visibility_index>>

wvars == <<has_parent, widget_geometry, geometry, child_widget, main_context, fault,
          backup_taken, saved, wop>>

ivars == <<touch, tilt, icalls, ievent>>

vars == <<dphase, decoder, libHandle, opens, closes, request, response, libCalls, mem,
         out_streams, libAnswers,
         epc, running, exec_step, stop_run, was_active, running_mutex, cpc,
         prevSignal, lastSignal, lastError, lastResult, iterEntered, shutdowns, lateCall,
         cfg_global, powered_on, vulkan_ok, settings, use_shader_jit, gphase, ui, trackers,
         physical_devices_discovered, lastOp, visibility_index,
         has_parent, widget_geometry, geometry, child_widget, main_context, fault,
         backup_taken, saved, wop,
         touch, tilt, icalls, ievent>>

\* what an action of one part leaves alone: the variables of the other parts
DecoderFrame == UNCHANGED <<evars, gvars, wvars, ivars>>

EmuFrame == UNCHANGED <<dvars, gvars, wvars, ivars>>

GraphicsFrame == UNCHANGED <<dvars, evars, wvars, ivars>>

InputFrame == UNCHANGED <<dvars, evars, gvars, wvars>>

\* the render windows read Settings::values.graphics_api and change no setting
WindowFrame ==
    UNCHANGED <<dvars, evars, ivars, cfg_global, powered_on, vulkan_ok, settings,
                use_shader_jit, gphase, ui, trackers, physical_devices_discovered, lastOp,
                visibility_index>>

(***************************************************************************)
(* Bounds of the model.                                                    *)
(***************************************************************************)
\* Width of the address word. The code uses u32; the model keeps the wrapping
\* arithmetic at a narrower width so that the address space can be enumerated.
AddrBits == 8
\* Largest number of aacDecoder_Fill / aacDecoder_DecodeFrame rounds of one Decode.
MaxIter == 2
\* Samples per channel in one decoded frame (stream_info->frameSize).
FrameSize == 1
\* Number of physical devices a working Vulkan instance reports.
NumDevices == 2
\* Largest size the screen lets a window have (sizes are 1..MaxSize).
MaxSize == 2

(***************************************************************************)
(* Machine arithmetic.                                                     *)
(***************************************************************************)
TwoPow == 2 ^ AddrBits
U32Max == TwoPow - 1

\* unsigned wrap-around of the address word (u32 in the code)
U32(x) == x % TwoPow

RECURSIVE BitAnd(_, _)
\* bitwise AND of two naturals (operator & of the code)
BitAnd(a, b) ==
    IF a = 0 \/ b = 0 THEN 0
    ELSE (IF a % 2 = 1 /\ b % 2 = 1 THEN 1 ELSE 0) + 2 * BitAnd(a \div 2, b \div 2)

\* FCRAM window of the physical address space, kept in the proportion of the
\* 3DS memory map (FCRAM_PADDR = 0x20000000 = 2^32 / 8, FCRAM_SIZE = 0x08000000 = 2^32 / 32).
FCRAM_PADDR == TwoPow \div 8
FCRAM_SIZE == TwoPow \div 32
FCRAM_END == FCRAM_PADDR + FCRAM_SIZE

\* flag bits of aacDecoder_DecodeFrame (fdk-aac/aacdecoder_lib.h)
AACDEC_CONCEAL == 1
AACDEC_FLUSH == 2
AACDEC_INTR == 4

(***************************************************************************)
(* Requests, responses and the library's behaviour (the inputs).           *)
(***************************************************************************)
Codecs == {"DecodeAAC", "EncodeAAC"}
Commands == {"Init", "EncodeDecode", "Unknown", "SaveState"}

SrcAddrs == {FCRAM_PADDR - 1, FCRAM_PADDR, FCRAM_END - 1}
Sizes == {0, 1, 2, U32Max}
DstAddrs == {FCRAM_PADDR - 1, FCRAM_PADDR, FCRAM_END - 2 * FrameSize}

\* EncodeDecode requests with every combination of addresses
DecodeRequests ==
    [codec : {"DecodeAAC"}, cmd : {"EncodeDecode"}, result : {1},
     src_addr : SrcAddrs, size : Sizes, dst_addr_ch0 : DstAddrs, dst_addr_ch1 : DstAddrs]

\* every codec and command, with addresses outside and inside FCRAM
HeaderRequests ==
    [codec : Codecs, cmd : Commands, result : {0, 1},
     src_addr : {FCRAM_PADDR - 1}, size : {2},
     dst_addr_ch0 : {FCRAM_PADDR - 1}, dst_addr_ch1 : {FCRAM_PADDR}]

Requests == DecodeRequests \cup HeaderRequests

NoRequest == [codec |-> "none", cmd |-> "none", result |-> 0, src_addr |-> 0, size |-> 0,
              dst_addr_ch0 |-> 0, dst_addr_ch1 |-> 0]

NoResponse == [tag |-> "none"]

\* One round of the decoding loop as the library answers it:
\*   FillErr  aacDecoder_Fill fails
\*   Sync     aacDecoder_DecodeFrame returns AAC_DEC_TRANSPORT_SYNC_ERROR
\*   DecErr   aacDecoder_DecodeFrame returns another error
\*   OK1/OK2  a frame of FrameSize samples with 1 / 2 channels is decoded
\* take: what aacDecoder_Fill consumes of the bytes still outside the library.
RoundKinds == {"FillErr", "Sync", "DecErr", "OK1", "OK2"}

ScriptOf(kinds) ==
    [i \in 1..Len(kinds) |->
        [kind |-> kinds[i], take |-> IF i = Len(kinds) THEN "all" ELSE "one"]]

KindSeqs ==
    UNION {[1..n -> RoundKinds] : n \in 1..MaxIter}

\* an error return ends the loop, so it can only be the last round
Scripts ==
    {ScriptOf(k) : k \in {q \in KindSeqs :
        \A i \in 1..(Len(q) - 1) : q[i] \notin {"FillErr", "DecErr"}}}

\* the library is only asked when the request carries data
LibScripts(req) ==
    IF req.cmd = "EncodeDecode" /\ req.size > 0 THEN Scripts ELSE {<<>>}

(***************************************************************************)
(* FDKDecoder::Impl                                                        *)
(***************************************************************************)
\* value of a response field that Decode did not assign
Unset == 0 - 1

\* ResultStatus::Success
ResultStatus_Success == 0

LibCall(fn, flags, on, addr, len) ==
    [fn |-> fn, flags |-> flags, on |-> on, addr |-> addr, len |-> len]

MemAccess(op, ch, addr, len) ==
    [op |-> op, ch |-> ch, addr |-> addr, len |-> len]

Outcome(resp, calls, accesses) ==
    [response |-> resp, calls |-> calls, mem |-> accesses, streams |-> <<0, 0>>]

\* an outcome of Decode once its loop has filled out_streams
WithStreams(out, n0, n1) == [out EXCEPT !.streams = <<n0, n1>>]

\* bool IsValid() const { return decoder != nullptr; }
IsValid == decoder # "null"

\* aacDecoder_Close(handle): a null handle is ignored by the library
LibClose(handle, st) ==
    IF handle = "null" THEN st
    ELSE [st EXCEPT !.libHandle = "closed", !.closes = st.closes + 1]

\* the constructor with the handle kept after aacDecoder_Close (decoder = nullptr left out)
ImplCtor_KeepsHandle(libinfo_ok, open_ok, setparam_ok) ==
    LET fresh == [decoder |-> "null", libHandle |-> "none", opens |-> 0, closes |-> 0]
        opened == IF open_ok
                  THEN [fresh EXCEPT !.decoder = "h", !.libHandle = "open", !.opens = 1]
                  ELSE fresh
        ret_ok == open_ok /\ setparam_ok
    IN  IF ~libinfo_ok THEN fresh
        ELSE IF ~ret_ok THEN LibClose(opened.decoder, opened)
             ELSE opened

\* FDKDecoder::Impl::Impl, for the answers the library gives to
\* aacDecoder_GetLibInfo, aacDecoder_Open and aacDecoder_SetParam
ImplCtor(libinfo_ok, open_ok, setparam_ok) ==
    LET fresh == [decoder |-> "null", libHandle |-> "none", opens |-> 0, closes |-> 0]
        opened == IF open_ok
                  THEN [fresh EXCEPT !.decoder = "h", !.libHandle = "open", !.opens = 1]
                  ELSE fresh
        \* aacDecoder_SetParam on a null handle returns AAC_DEC_INVALID_HANDLE
        ret_ok == open_ok /\ setparam_ok
    IN  IF ~libinfo_ok THEN fresh
        ELSE IF ~ret_ok
             THEN [LibClose(opened.decoder, opened) EXCEPT !.decoder = "null"]
             ELSE opened

\* FDKDecoder::Impl::~Impl
ImplDtor(st) ==
    IF st.decoder # "null" THEN LibClose(st.decoder, st) ELSE st

\* the flags word Clear passes to aacDecoder_DecodeFrame
ClearFlags == BitAnd(BitAnd(AACDEC_FLUSH, AACDEC_INTR), AACDEC_CONCEAL)

\* FDKDecoder::Impl::Clear: the library calls it makes
Clear(dec, lh) ==
    IF dec # "null" THEN {LibCall("DecodeFrame", ClearFlags, lh, 0, 0)} ELSE {}

\* FDKDecoder::Impl::Initalize
Initalize(req, dec, lh) ==
    LET resp == [tag |-> "copy", msg |-> [req EXCEPT !.result = ResultStatus_Success]]
    IN  IF dec # "null" THEN Outcome(resp, Clear(dec, lh), {})
        ELSE Outcome(resp, {}, {})

\* the source bounds test of Decode, in the u32 arithmetic of its operands
SrcOutOfBounds(src_addr, size) ==
    src_addr < FCRAM_PADDR \/ U32(src_addr + size) > FCRAM_PADDR + FCRAM_SIZE

\* the destination test with its lower bound left out
DstOutOfBounds_NoLower(dst, byte_size) ==
    dst + byte_size > FCRAM_PADDR + FCRAM_SIZE

\* the destination bounds test of Decode; byte_size is a std::size_t, so the
\* sum is formed in 64 bits and does not wrap
DstOutOfBounds(dst, byte_size) ==
    dst < FCRAM_PADDR \/ dst + byte_size > FCRAM_PADDR + FCRAM_SIZE

RECURSIVE DecodeLoop(_, _, _, _, _, _)
\* the while (buffer_remaining) loop of Decode; st carries the calls made, the
\* samples pushed to out_streams[0] and [1] and the response fields set so far
DecodeLoop(script, i, buffer_remaining, data, input_size, st) ==
    IF buffer_remaining = 0 THEN [st EXCEPT !.ret = "done"]
    ELSE IF i > Len(script) THEN [st EXCEPT !.ret = "stuck"]
    ELSE
      LET e == script[i]
          filled == [st EXCEPT !.calls = @ \cup {LibCall("Fill", 0, st.on, data, input_size)}]
          left == IF e.take = "all" THEN 0 ELSE buffer_remaining - 1
          decoded == [filled EXCEPT !.calls = @ \cup {LibCall("DecodeFrame", 0, st.on, 0, 0)}]
          numChannels == IF e.kind = "OK1" THEN 1 ELSE 2
      IN  CASE e.kind = "FillErr" -> [filled EXCEPT !.ret = "nullopt"]
            [] e.kind = "DecErr" -> [decoded EXCEPT !.ret = "nullopt"]
            [] e.kind = "Sync" ->
                 DecodeLoop(script, i + 1, left, data, input_size, decoded)
            [] OTHER ->
                 DecodeLoop(script, i + 1, left, data, input_size,
                     [decoded EXCEPT
                        !.calls = @ \cup {LibCall("GetStreamInfo", 0, st.on, 0, 0)},
                        !.sample_rate = 1,
                        !.num_channels = numChannels,
                        !.num_samples = FrameSize,
                        !.n0 = @ + FrameSize,
                        !.n1 = @ + (IF numChannels = 2 THEN FrameSize ELSE 0)])

\* the transfer of out_streams to FCRAM at the end of Decode
Transfer(req, resp, calls, ptr, n0, n1) ==
    LET size0 == n0 * 2
        size1 == n1 * 2
        w0 == IF n0 > 0 THEN {MemAccess("write", 0, req.dst_addr_ch0, size0)} ELSE {}
        w1 == IF n1 > 0 THEN {MemAccess("write", 1, req.dst_addr_ch1, size1)} ELSE {}
    IN  WithStreams(
          IF n0 > 0 /\ DstOutOfBounds(req.dst_addr_ch0, size0)
          THEN Outcome(NoResponse, calls, ptr)
          ELSE IF n1 > 0 /\ DstOutOfBounds(req.dst_addr_ch1, size1)
               THEN Outcome(NoResponse, calls, ptr \cup w0)
               ELSE Outcome(resp, calls, ptr \cup w0 \cup w1),
          n0, n1)

\* no decoder treated as an error: Decode returns nothing
DecodeNoDecoder_Nullopt(resp) ==
    Outcome(NoResponse, {}, {})

\* the response Decode gives when there is no decoder
DecodeNoDecoder(resp) ==
    Outcome([resp EXCEPT !.num_channels = 2, !.num_samples = 1024], {}, {})

\* FDKDecoder::Impl::Decode
Decode(req, script, dec, lh) ==
    LET resp == [tag |-> "decode", codec |-> req.codec, cmd |-> req.cmd, size |-> req.size,
                 sample_rate |-> Unset, num_channels |-> Unset, num_samples |-> Unset]
        data == FCRAM_PADDR + U32(req.src_addr - FCRAM_PADDR)
        ptr == {MemAccess("GetFCRAMPointer", 0, data, 0)}
        start == [ret |-> "run", on |-> lh, calls |-> {}, n0 |-> 0, n1 |-> 0,
                  sample_rate |-> Unset, num_channels |-> Unset, num_samples |-> Unset]
        loop == DecodeLoop(script, 1, req.size, data, req.size, start)
        filled == [resp EXCEPT !.sample_rate = loop.sample_rate,
                               !.num_channels = loop.num_channels,
                               !.num_samples = loop.num_samples]
    IN  IF dec = "null" THEN DecodeNoDecoder(resp)
        ELSE IF SrcOutOfBounds(req.src_addr, req.size) THEN Outcome(NoResponse, {}, {})
        ELSE IF loop.ret = "done" THEN Transfer(req, filled, loop.calls, ptr, loop.n0, loop.n1)
        ELSE IF loop.ret = "nullopt"
             THEN WithStreams(Outcome(NoResponse, loop.calls, ptr), loop.n0, loop.n1)
        ELSE [response |-> NoResponse, calls |-> loop.calls, mem |-> ptr,
              streams |-> <<loop.n0, loop.n1>>, stuck |-> TRUE]

\* ProcessRequest with the codec test left out and Unknown answered with the request as it came
ProcessRequestImpl_NoCodecCheck(req, script, dec, lh) ==
    CASE req.cmd = "Init" -> Initalize(req, dec, lh)
      [] req.cmd = "EncodeDecode" -> Decode(req, script, dec, lh)
      [] req.cmd = "Unknown" -> Outcome([tag |-> "copy", msg |-> req], {}, {})
      [] OTHER -> Outcome(NoResponse, {}, {})

\* FDKDecoder::Impl::ProcessRequest (FDKDecoder::ProcessRequest forwards to it)
ProcessRequestImpl(req, script, dec, lh) ==
    IF req.codec # "DecodeAAC" THEN Outcome(NoResponse, {}, {})
    ELSE CASE req.cmd = "Init" -> Initalize(req, dec, lh)
           [] req.cmd = "EncodeDecode" -> Decode(req, script, dec, lh)
           [] req.cmd = "Unknown" ->
                Outcome([tag |-> "copy", msg |-> [req EXCEPT !.result = 0]], {}, {})
           [] OTHER -> Outcome(NoResponse, {}, {})

DecoderInit ==
    /\ dphase = "unconstructed"
    /\ decoder = "null"
    /\ libHandle = "none"
    /\ opens = 0
    /\ closes = 0
    /\ request = NoRequest
    /\ response = NoResponse
    /\ libCalls = {}
    /\ mem = {}
    /\ out_streams = <<0, 0>>
    /\ libAnswers = [libinfo_ok |-> FALSE, open_ok |-> FALSE, setparam_ok |-> FALSE]

\* std::make_unique<Impl>(memory)
Construct ==
    /\ dphase = "unconstructed"
    /\ \E libinfo_ok \in BOOLEAN, open_ok \in BOOLEAN, setparam_ok \in BOOLEAN :
          LET st == ImplCtor(libinfo_ok, open_ok, setparam_ok)
          IN  /\ decoder' = st.decoder
              /\ libHandle' = st.libHandle
              /\ opens' = st.opens
              /\ closes' = st.closes
              /\ libAnswers' = [libinfo_ok |-> libinfo_ok, open_ok |-> open_ok,
                                setparam_ok |-> setparam_ok]
    /\ dphase' = "alive"
    /\ UNCHANGED <<request, response, libCalls, mem, out_streams>>
    /\ DecoderFrame

\* FDKDecoder::ProcessRequest is entered with a request: the call is in
\* progress and nothing has been done for it yet
FDKDecoder_ProcessRequest ==
    /\ dphase = "alive"
    /\ \E req \in Requests : request' = req
    /\ response' = NoResponse
    /\ libCalls' = {}
    /\ mem' = {}
    /\ out_streams' = <<0, 0>>
    /\ dphase' = "called"
    /\ UNCHANGED <<decoder, libHandle, opens, closes, libAnswers>>
    /\ DecoderFrame

\* FDKDecoder::Impl::ProcessRequest runs on the request and returns
ProcessRequest ==
    /\ dphase = "called"
    /\ \E script \in LibScripts(request) :
          LET out == ProcessRequestImpl(request, script, decoder, libHandle)
          IN  /\ "stuck" \notin DOMAIN out
              /\ response' = out.response
              /\ libCalls' = out.calls
              /\ mem' = out.mem
              /\ out_streams' = out.streams
    /\ dphase' = "alive"
    /\ UNCHANGED <<request, decoder, libHandle, opens, closes, libAnswers>>
    /\ DecoderFrame

\* FDKDecoder::~FDKDecoder
Destroy ==
    /\ dphase = "alive"
    /\ LET st == ImplDtor([decoder |-> decoder, libHandle |-> libHandle,
                           opens |-> opens, closes |-> closes])
       IN  /\ libHandle' = st.libHandle
           /\ closes' = st.closes
    /\ dphase' = "destroyed"
    /\ UNCHANGED <<decoder, opens, request, response, libCalls, mem, out_streams, libAnswers>>
    /\ DecoderFrame

NextDecoder == Construct \/ FDKDecoder_ProcessRequest \/ ProcessRequest \/ Destroy

(***************************************************************************)
(* EmuThread::run, one action per step between two points at which another *)
(* thread can be observed (a read or write of an atomic, a call into the   *)
(* core, a condition-variable operation).                                  *)
(***************************************************************************)
ResultStatuses == {"Success", "ShutdownRequested", "ErrorSystemFiles"}

EmuInit ==
    /\ epc = "start"
    /\ running = FALSE
    /\ exec_step = FALSE
    /\ stop_run = FALSE
    /\ was_active = FALSE
    /\ running_mutex = "free"
    /\ cpc = "idle"
    /\ prevSignal = "none"
    /\ lastSignal = "none"
    /\ lastError = "none"
    /\ lastResult = "none"
    /\ iterEntered = FALSE
    /\ shutdowns = 0
    /\ lateCall = FALSE

\* emit DebugModeLeft() / emit DebugModeEntered()
Emit(sig) ==
    /\ prevSignal' = lastSignal
    /\ lastSignal' = sig

NoEmit == UNCHANGED <<prevSignal, lastSignal>>

\* running_cv.notify_all(): a thread blocked in wait goes on to take the mutex again
NotifiedPc == IF epc = "blocked" THEN "wait_relock" ELSE epc

\* run up to the main loop: resource loading, MakeCurrent, bool was_active = false
Run_Prologue ==
    /\ epc = "start"
    /\ epc' = "loop_head"
    /\ was_active' = FALSE
    /\ UNCHANGED <<running, exec_step, stop_run, running_mutex, cpc, prevSignal, lastSignal,
                   lastError, lastResult, iterEntered, shutdowns, lateCall>>
    /\ EmuFrame

\* while (!stop_run)
Run_LoopHead ==
    /\ epc = "loop_head"
    /\ epc' = IF stop_run THEN "shutdown" ELSE "check_running"
    /\ iterEntered' = FALSE
    /\ UNCHANGED <<running, exec_step, stop_run, was_active, running_mutex, cpc, prevSignal,
                   lastSignal, lastError, lastResult, shutdowns, lateCall>>
    /\ EmuFrame

\* if (running) { if (!was_active) emit DebugModeLeft(); ...
Run_CheckRunning ==
    /\ epc = "check_running"
    /\ IF running
       THEN /\ epc' = "run_loop"
            /\ IF ~was_active THEN Emit("DebugModeLeft") ELSE NoEmit
       ELSE /\ epc' = "check_exec_step"
            /\ NoEmit
    /\ UNCHANGED <<running, exec_step, stop_run, was_active, running_mutex, cpc,
                   lastError, lastResult, iterEntered, shutdowns, lateCall>>
    /\ EmuFrame

\* the RunLoop branch with the break on ShutdownRequested left out
Run_RunLoop_NoBreak ==
    /\ epc = "run_loop"
    /\ \E result \in ResultStatuses :
          /\ lastResult' = result
          /\ IF result = "ShutdownRequested"
             THEN /\ lastError' = result
                  /\ UNCHANGED running
             ELSE IF result # "Success"
             THEN /\ running_mutex = "free"
                  /\ running' = FALSE
                  /\ lastError' = result
             ELSE UNCHANGED <<running, lastError>>
    /\ epc' = "read_running"
    /\ lateCall' = (lateCall \/ shutdowns > 0)
    /\ UNCHANGED <<exec_step, stop_run, was_active, running_mutex, cpc, prevSignal,
                   lastSignal, iterEntered, shutdowns>>
    /\ EmuFrame

\* result = system.RunLoop(); ShutdownRequested: emit ErrorThrown(result, "") and break;
\* another failure: this->SetRunning(false) and emit ErrorThrown(result, details)
Run_RunLoop ==
    /\ epc = "run_loop"
    /\ \E result \in ResultStatuses :
          /\ lastResult' = result
          /\ IF result = "ShutdownRequested"
             THEN /\ lastError' = result
                  /\ epc' = "shutdown"
                  /\ UNCHANGED running
             ELSE IF result # "Success"
             THEN /\ running_mutex = "free"
                  /\ running' = FALSE
                  /\ lastError' = result
                  /\ epc' = "read_running"
             ELSE /\ epc' = "read_running"
                  /\ UNCHANGED <<running, lastError>>
    /\ lateCall' = (lateCall \/ shutdowns > 0)
    /\ UNCHANGED <<exec_step, stop_run, was_active, running_mutex, cpc, prevSignal,
                   lastSignal, iterEntered, shutdowns>>
    /\ EmuFrame

\* was_active = running || exec_step: the read of running
Run_ReadRunning ==
    /\ epc = "read_running"
    /\ IF running
       THEN /\ was_active' = TRUE
            /\ epc' = "check_entered"
       ELSE /\ epc' = "read_exec_step"
            /\ UNCHANGED was_active
    /\ UNCHANGED <<running, exec_step, stop_run, running_mutex, cpc, prevSignal, lastSignal,
                   lastError, lastResult, iterEntered, shutdowns, lateCall>>
    /\ EmuFrame

\* was_active = running || exec_step: the read of exec_step
Run_ReadExecStep ==
    /\ epc = "read_exec_step"
    /\ was_active' = exec_step
    /\ epc' = "check_entered"
    /\ UNCHANGED <<running, exec_step, stop_run, running_mutex, cpc, prevSignal, lastSignal,
                   lastError, lastResult, iterEntered, shutdowns, lateCall>>
    /\ EmuFrame

\* if (!was_active && !stop_run) emit DebugModeEntered();
Run_CheckEntered ==
    /\ epc = "check_entered"
    /\ IF ~was_active /\ ~stop_run
       THEN /\ Emit("DebugModeEntered")
            /\ iterEntered' = TRUE
       ELSE /\ NoEmit
            /\ UNCHANGED iterEntered
    /\ epc' = "loop_head"
    /\ UNCHANGED <<running, exec_step, stop_run, was_active, running_mutex, cpc,
                   lastError, lastResult, shutdowns, lateCall>>
    /\ EmuFrame

\* else if (exec_step) { if (!was_active) emit DebugModeLeft(); ...
Run_CheckExecStep ==
    /\ epc = "check_exec_step"
    /\ IF exec_step
       THEN /\ epc' = "clear_exec_step"
            /\ IF ~was_active THEN Emit("DebugModeLeft") ELSE NoEmit
       ELSE /\ epc' = "wait_lock"
            /\ NoEmit
    /\ UNCHANGED <<running, exec_step, stop_run, was_active, running_mutex, cpc,
                   lastError, lastResult, iterEntered, shutdowns, lateCall>>
    /\ EmuFrame

\* exec_step = false;
Run_ClearExecStep ==
    /\ epc = "clear_exec_step"
    /\ exec_step' = FALSE
    /\ epc' = "single_step"
    /\ UNCHANGED <<running, stop_run, was_active, running_mutex, cpc, prevSignal, lastSignal,
                   lastError, lastResult, iterEntered, shutdowns, lateCall>>
    /\ EmuFrame

\* the single-step branch with was_active left as it was
Run_SingleStep_KeepsActive ==
    /\ epc = "single_step"
    /\ Emit("DebugModeEntered")
    /\ iterEntered' = TRUE
    /\ epc' = "loop_head"
    /\ lateCall' = (lateCall \/ shutdowns > 0)
    /\ UNCHANGED <<running, exec_step, stop_run, was_active, running_mutex, cpc,
                   lastError, lastResult, shutdowns>>
    /\ EmuFrame

\* system.SingleStep(); emit DebugModeEntered(); yieldCurrentThread(); was_active = false;
Run_SingleStep ==
    /\ epc = "single_step"
    /\ Emit("DebugModeEntered")
    /\ iterEntered' = TRUE
    /\ was_active' = FALSE
    /\ epc' = "loop_head"
    /\ lateCall' = (lateCall \/ shutdowns > 0)
    /\ UNCHANGED <<running, exec_step, stop_run, running_mutex, cpc,
                   lastError, lastResult, shutdowns>>
    /\ EmuFrame

\* std::unique_lock lock{running_mutex}; and the lock taken again after a wake-up
Run_WaitLock ==
    /\ epc \in {"wait_lock", "wait_relock"}
    /\ running_mutex = "free"
    /\ running_mutex' = "emu"
    /\ epc' = "wait_pred"
    /\ UNCHANGED <<running, exec_step, stop_run, was_active, cpc, prevSignal, lastSignal,
                   lastError, lastResult, iterEntered, shutdowns, lateCall>>
    /\ EmuFrame

\* running_cv.wait with stop_run left out of its predicate
Run_WaitPred_NoStop ==
    /\ epc = "wait_pred"
    /\ IF running \/ exec_step
       THEN /\ epc' = "loop_head"
            /\ running_mutex' = "free"
       ELSE /\ epc' = "wait_block"
            /\ UNCHANGED running_mutex
    /\ UNCHANGED <<running, exec_step, stop_run, was_active, cpc, prevSignal, lastSignal,
                   lastError, lastResult, iterEntered, shutdowns, lateCall>>
    /\ EmuFrame

\* the predicate of running_cv.wait: IsRunning() || exec_step || stop_run;
\* true: wait returns and the lock goes out of scope
Run_WaitPred ==
    /\ epc = "wait_pred"
    /\ IF running \/ exec_step \/ stop_run
       THEN /\ epc' = "loop_head"
            /\ running_mutex' = "free"
       ELSE /\ epc' = "wait_block"
            /\ UNCHANGED running_mutex
    /\ UNCHANGED <<running, exec_step, stop_run, was_active, cpc, prevSignal, lastSignal,
                   lastError, lastResult, iterEntered, shutdowns, lateCall>>
    /\ EmuFrame

\* running_cv.wait releases the mutex and blocks
Run_WaitBlock ==
    /\ epc = "wait_block"
    /\ running_mutex' = "free"
    /\ epc' = "blocked"
    /\ UNCHANGED <<running, exec_step, stop_run, was_active, cpc, prevSignal, lastSignal,
                   lastError, lastResult, iterEntered, shutdowns, lateCall>>
    /\ EmuFrame

\* a condition variable may wake without a notification
Run_SpuriousWakeup ==
    /\ epc = "blocked"
    /\ epc' = "wait_relock"
    /\ UNCHANGED <<running, exec_step, stop_run, was_active, running_mutex, cpc, prevSignal,
                   lastSignal, lastError, lastResult, iterEntered, shutdowns, lateCall>>
    /\ EmuFrame

\* system.Shutdown();
Run_Shutdown ==
    /\ epc = "shutdown"
    /\ shutdowns' = shutdowns + 1
    /\ epc' = "done"
    /\ UNCHANGED <<running, exec_step, stop_run, was_active, running_mutex, cpc, prevSignal,
                   lastSignal, lastError, lastResult, iterEntered, lateCall>>
    /\ EmuFrame

\* EmuThread::SetRunning(bool) called by another thread: the assignment under
\* running_mutex, then running_cv.notify_all()
SetRunning ==
    /\ cpc = "idle"
    /\ running_mutex = "free"
    /\ \E v \in BOOLEAN : running' = v
    /\ epc' = NotifiedPc
    /\ UNCHANGED <<exec_step, stop_run, was_active, running_mutex, cpc, prevSignal,
                   lastSignal, lastError, lastResult, iterEntered, shutdowns, lateCall>>
    /\ EmuFrame

\* EmuThread::ExecStep called by another thread: exec_step = true; running_cv.notify_all()
ExecStep ==
    /\ cpc = "idle"
    /\ exec_step' = TRUE
    /\ epc' = NotifiedPc
    /\ UNCHANGED <<running, stop_run, was_active, running_mutex, cpc, prevSignal,
                   lastSignal, lastError, lastResult, iterEntered, shutdowns, lateCall>>
    /\ EmuFrame

\* EmuThread::RequestStop called by another thread: stop_run = true; ...
RequestStop_Set ==
    /\ cpc = "idle"
    /\ stop_run' = TRUE
    /\ cpc' = "stopping"
    /\ UNCHANGED <<epc, running, exec_step, was_active, running_mutex, prevSignal,
                   lastSignal, lastError, lastResult, iterEntered, shutdowns, lateCall>>
    /\ EmuFrame

\* ... SetRunning(false);
RequestStop_SetRunning ==
    /\ cpc = "stopping"
    /\ running_mutex = "free"
    /\ running' = FALSE
    /\ epc' = NotifiedPc
    /\ cpc' = "idle"
    /\ UNCHANGED <<exec_step, stop_run, was_active, running_mutex, prevSignal,
                   lastSignal, lastError, lastResult, iterEntered, shutdowns, lateCall>>
    /\ EmuFrame

NextEmu ==
    \/ Run_Prologue \/ Run_LoopHead \/ Run_CheckRunning \/ Run_RunLoop
    \/ Run_ReadRunning \/ Run_ReadExecStep \/ Run_CheckEntered
    \/ Run_CheckExecStep \/ Run_ClearExecStep \/ Run_SingleStep
    \/ Run_WaitLock \/ Run_WaitPred \/ Run_WaitBlock \/ Run_SpuriousWakeup
    \/ Run_Shutdown
    \/ SetRunning \/ ExecStep \/ RequestStop_Set \/ RequestStop_SetRunning

(***************************************************************************)
(* Settings::values (common/settings.h) as far as the dialog uses it.      *)
(***************************************************************************)
\* Settings::GraphicsAPI
GraphicsAPI_Software == 0
GraphicsAPI_OpenGL == 1
GraphicsAPI_Vulkan == 2
GraphicsAPIs == {GraphicsAPI_Software, GraphicsAPI_OpenGL, GraphicsAPI_Vulkan}

\* ConfigurationShared::USE_GLOBAL_INDEX, USE_GLOBAL_SEPARATOR_INDEX, USE_GLOBAL_OFFSET
USE_GLOBAL_INDEX == 0
USE_GLOBAL_SEPARATOR_INDEX == 1
USE_GLOBAL_OFFSET == 2

BoolSettings == {"use_hw_shader", "shaders_accurate_mul", "use_disk_shader_cache",
                 "use_vsync_new", "async_shader_compilation", "async_presentation",
                 "spirv_shader_gen"}

SettingNames == BoolSettings \cup {"graphics_api", "physical_device"}

\* the check box bound to each boolean setting
CheckboxOf(name) ==
    CASE name = "use_hw_shader" -> "toggle_hw_shader"
      [] name = "shaders_accurate_mul" -> "toggle_accurate_mul"
      [] name = "use_disk_shader_cache" -> "toggle_disk_shader_cache"
      [] name = "use_vsync_new" -> "toggle_vsync_new"
      [] name = "async_shader_compilation" -> "toggle_async_shaders"
      [] name = "async_presentation" -> "toggle_async_present"
      [] name = "spirv_shader_gen" -> "spirv_shader_gen"

Checkboxes == {CheckboxOf(n) : n \in BoolSettings} \cup {"toggle_shader_jit"}

EnableControls == {"graphics_api_group", "graphics_api_combo", "toggle_hw_shader",
                   "toggle_accurate_mul", "toggle_disk_shader_cache", "toggle_vsync_new",
                   "toggle_async_shaders", "toggle_async_present", "physical_device_combo",
                   "hw_renderer_group", "hw_shader_group"}

VisibleControls == {"toggle_shader_jit", "physical_device_group", "spirv_shader_gen"}

\* SwitchableSetting::UsingGlobal
UsingGlobal(st) == st.use_global

\* SwitchableSetting::GetValue()
GetValue(st) == IF st.use_global THEN st.value ELSE st.custom

\* SwitchableSetting::GetValue(true)
GetGlobalValue(st) == st.value

\* SwitchableSetting::SetValue and operator=
SetValue(st, v) == IF st.use_global THEN [st EXCEPT !.value = v] ELSE [st EXCEPT !.custom = v]

\* SwitchableSetting::SetGlobal
SetGlobal(st, to_global) == [st EXCEPT !.use_global = to_global]

(***************************************************************************)
(* ConfigurationShared helpers (configuration_shared.h/.cpp).              *)
(***************************************************************************)
\* ConfigurationShared::GetComboboxSetting
GetComboboxSetting(index, st) ==
    IF cfg_global /\ UsingGlobal(st) THEN index
    ELSE IF ~cfg_global
         THEN (IF index = 0 THEN GetValue(st) ELSE index - USE_GLOBAL_OFFSET)
         ELSE GetValue(st)

\* ConfigurationShared::ApplyPerGameSetting(setting, combobox); the index is
\* converted to the setting's unsigned type
ApplyPerGameCombo(st, index) ==
    IF cfg_global /\ UsingGlobal(st) THEN SetValue(st, U32(index))
    ELSE IF ~cfg_global
         THEN (IF index = USE_GLOBAL_INDEX THEN SetGlobal(st, TRUE)
               ELSE SetValue(SetGlobal(st, FALSE), U32(index - USE_GLOBAL_OFFSET)))
         ELSE st

\* ConfigurationShared::ApplyPerGameSetting(setting, checkbox, tracker)
ApplyPerGameCheckbox(st, checked, tracker) ==
    IF cfg_global /\ UsingGlobal(st) THEN SetValue(st, checked)
    ELSE IF ~cfg_global
         THEN (IF tracker = "Global" THEN SetGlobal(st, TRUE)
               ELSE SetValue(SetGlobal(st, FALSE), checked))
         ELSE st

\* ConfigurationShared::SetColoredTristate: the tracker it initialises
InitialTracker(st) ==
    IF UsingGlobal(st) THEN "Global"
    ELSE IF GetValue(st) = GetGlobalValue(st) THEN "On" ELSE "Off"

(***************************************************************************)
(* The widgets.                                                            *)
(***************************************************************************)
\* ui->setupUi(this): every widget enabled and visible, nothing checked, the API
\* combo holding Software, OpenGL, Vulkan and the device combo empty
SetupUi ==
    [enabled |-> [c \in EnableControls |-> TRUE],
     visible |-> [c \in VisibleControls |-> TRUE],
     checked |-> [c \in Checkboxes |-> FALSE],
     api_index |-> 0, api_count |-> 3,
     device_index |-> 0 - 1, device_count |-> 0]

NoUi ==
    [enabled |-> [c \in EnableControls |-> FALSE],
     visible |-> [c \in VisibleControls |-> FALSE],
     checked |-> [c \in Checkboxes |-> FALSE],
     api_index |-> 0 - 1, api_count |-> 0,
     device_index |-> 0 - 1, device_count |-> 0]

\* no call of SetPhysicalDeviceComboVisibility on this dialog yet
NotCalled == 0 - 2

SetEnabled(u, c, b) == [u EXCEPT !.enabled[c] = b]

SetVisible(u, c, b) == [u EXCEPT !.visible[c] = b]

\* SetPhysicalDeviceComboVisibility with the per-game offset forgotten
SetPhysicalDeviceComboVisibility_NoOffset(u, sts, index) ==
    LET global_graphics_api == GetGlobalValue(sts["graphics_api"])
        using_global == index = 0
        is_visible ==
            IF ~cfg_global
            THEN (using_global /\ global_graphics_api = GraphicsAPI_Vulkan)
                 \/ index = GraphicsAPI_Vulkan
            ELSE index = GraphicsAPI_Vulkan
    IN  SetVisible(SetVisible(u, "physical_device_group", is_visible),
                   "spirv_shader_gen", is_visible)

\* ConfigureGraphics::SetPhysicalDeviceComboVisibility
SetPhysicalDeviceComboVisibility(u, sts, index) ==
    LET global_graphics_api == GetGlobalValue(sts["graphics_api"])
        using_global == index = 0
        shifted == IF using_global THEN index ELSE index - USE_GLOBAL_OFFSET
        is_visible ==
            IF ~cfg_global
            THEN (using_global /\ global_graphics_api = GraphicsAPI_Vulkan)
                 \/ shifted = GraphicsAPI_Vulkan
            ELSE index = GraphicsAPI_Vulkan
    IN  SetVisible(SetVisible(u, "physical_device_group", is_visible),
                   "spirv_shader_gen", is_visible)

\* the first slot of graphics_api_combo's currentIndexChanged, storing the
\* selected API in the settings as well
OnGraphicsApiChanged_Stores(c, index) ==
    LET graphics_api == GetComboboxSetting(index, c.settings["graphics_api"])
        is_software == graphics_api = GraphicsAPI_Software
        u1 == SetEnabled(c.ui, "hw_renderer_group", ~is_software)
        u2 == SetEnabled(u1, "toggle_disk_shader_cache",
                         ~is_software /\ c.ui.checked["toggle_hw_shader"])
    IN  [c EXCEPT !.ui = u2,
                  !.settings["graphics_api"] = SetValue(@, graphics_api)]

\* the first slot of graphics_api_combo's currentIndexChanged (the lambda of the
\* constructor)
OnGraphicsApiChanged(c, index) ==
    LET graphics_api == GetComboboxSetting(index, c.settings["graphics_api"])
        is_software == graphics_api = GraphicsAPI_Software
        u1 == SetEnabled(c.ui, "hw_renderer_group", ~is_software)
        u2 == SetEnabled(u1, "toggle_disk_shader_cache",
                         ~is_software /\ c.ui.checked["toggle_hw_shader"])
    IN  [c EXCEPT !.ui = u2]

\* QComboBox::setCurrentIndex on graphics_api_combo once its slots are connected:
\* an index that names no item selects nothing (-1); a change of the index runs
\* the two slots in the order they were connected
SetApiIndex(c, index) ==
    LET i == IF index >= 0 /\ index < c.ui.api_count THEN index ELSE 0 - 1
        c1 == [c EXCEPT !.ui.api_index = i]
        c2 == OnGraphicsApiChanged(c1, i)
    IN  IF i = c.ui.api_index THEN c
        ELSE [c2 EXCEPT !.ui = SetPhysicalDeviceComboVisibility(c2.ui, c2.settings, i),
                        !.vis_index = i]

\* QComboBox::setCurrentIndex on physical_device_combo (no slot is connected)
SetDeviceIndex(c, index) ==
    LET i == IF index >= 0 /\ index < c.ui.device_count THEN index ELSE 0 - 1
    IN  [c EXCEPT !.ui.device_index = i]

\* the slot of toggle_hw_shader's toggled signal
OnHwShaderToggled(u) ==
    LET checked == u.checked["toggle_hw_shader"]
    IN  SetEnabled(SetEnabled(u, "hw_shader_group", checked),
                   "toggle_disk_shader_cache", checked)

\* QCheckBox::setChecked: toggled is emitted when the state changes
SetChecked(c, box, b) ==
    LET u1 == [c.ui EXCEPT !.checked[box] = b]
    IN  IF box = "toggle_hw_shader" /\ c.ui.checked[box] # b
        THEN [c EXCEPT !.ui = OnHwShaderToggled(u1)]
        ELSE [c EXCEPT !.ui = u1]

(***************************************************************************)
(* ConfigureGraphics. A dialog state c is [ui, settings, jit, trackers,    *)
(* discovered]: its widgets, Settings::values, its CheckState members and  *)
(* physical_devices_discovered.                                            *)
(***************************************************************************)
\* ConfigureGraphics::DiscoverPhysicalDevices
DiscoverPhysicalDevices(c) ==
    IF c.discovered THEN c
    ELSE IF vulkan_ok
         THEN [c EXCEPT !.ui.device_count = @ + NumDevices,
                        !.ui.device_index = IF @ < 0 /\ NumDevices > 0 THEN 0 ELSE @,
                        !.discovered = TRUE]
         ELSE [c EXCEPT !.ui.api_count = IF @ > 2 THEN @ - 1 ELSE @,
                        !.ui.api_index = IF @ = 2 THEN 1 ELSE @,
                        !.settings["graphics_api"] = SetValue(@, GraphicsAPI_OpenGL)]

\* ConfigurationShared::SetColoredComboBox: the two items put in front of a combo
InsertGlobalItem(count, index) ==
    [count |-> count + 2, index |-> IF index >= 0 THEN index + 2 ELSE index]

\* ConfigureGraphics::SetupPerGameUI
SetupPerGameUI(c) ==
    LET g(name) == UsingGlobal(c.settings[name])
        u == c.ui
        en == [u.enabled EXCEPT
                 !["graphics_api_group"] = g("graphics_api"),
                 !["toggle_hw_shader"] = g("use_hw_shader"),
                 !["toggle_accurate_mul"] = g("shaders_accurate_mul"),
                 !["toggle_disk_shader_cache"] = g("use_disk_shader_cache"),
                 !["toggle_vsync_new"] = @ /\ g("use_vsync_new"),
                 !["toggle_async_shaders"] = g("async_shader_compilation"),
                 !["toggle_async_present"] = g("async_presentation"),
                 !["graphics_api_combo"] = g("graphics_api"),
                 !["physical_device_combo"] = g("physical_device")]
        api == InsertGlobalItem(u.api_count, u.api_index)
        dev == InsertGlobalItem(u.device_count, u.device_index)
    IN  IF cfg_global THEN [c EXCEPT !.ui.enabled = en]
        ELSE [c EXCEPT !.ui.visible["toggle_shader_jit"] = FALSE,
                       !.ui.api_count = api.count, !.ui.api_index = api.index,
                       !.ui.device_count = dev.count, !.ui.device_index = dev.index,
                       !.trackers = [n \in BoolSettings |-> InitialTracker(c.settings[n])]]

\* ConfigurationShared::SetPerGameSetting: the index it selects
PerGameIndex(st) ==
    IF UsingGlobal(st) THEN USE_GLOBAL_INDEX ELSE GetValue(st) + USE_GLOBAL_OFFSET

RECURSIVE SetCheckedAll(_, _)
\* the setChecked calls of SetConfiguration on the boxes bound to switchable settings
SetCheckedAll(c, names) ==
    IF names = << >> THEN c
    ELSE SetCheckedAll(SetChecked(c, CheckboxOf(Head(names)), GetValue(c.settings[Head(names)])),
                       Tail(names))

\* ConfigureGraphics::SetConfiguration
SetConfiguration(c) ==
    LET c1 == IF ~cfg_global
              THEN SetApiIndex(SetDeviceIndex(c, PerGameIndex(c.settings["physical_device"])),
                               PerGameIndex(c.settings["graphics_api"]))
              ELSE SetApiIndex(SetDeviceIndex(c, GetValue(c.settings["physical_device"])),
                               GetValue(c.settings["graphics_api"]))
        c2 == SetCheckedAll(c1, <<"use_hw_shader", "shaders_accurate_mul",
                                  "use_disk_shader_cache", "use_vsync_new",
                                  "spirv_shader_gen", "async_shader_compilation",
                                  "async_presentation">>)
    IN  IF cfg_global THEN SetChecked(c2, "toggle_shader_jit", c2.jit) ELSE c2

\* ConfigureGraphics::ConfigureGraphics
ConfigureGraphicsCtor(c0) ==
    LET c1 == SetupPerGameUI(DiscoverPhysicalDevices([c0 EXCEPT !.ui = SetupUi]))
        not_running == ~powered_on
        c2 == [c1 EXCEPT !.ui.enabled["toggle_vsync_new"] = not_running,
                         !.ui.enabled["physical_device_combo"] = not_running,
                         !.ui.enabled["toggle_async_shaders"] = not_running,
                         !.ui.enabled["toggle_async_present"] = not_running,
                         !.ui.api_index = 0 - 1]
    IN  SetConfiguration(c2)

\* ConfigureGraphics::ApplyConfiguration
ApplyConfiguration(c) ==
    LET box(n) == ApplyPerGameCheckbox(c.settings[n], c.ui.checked[CheckboxOf(n)],
                                       c.trackers[n])
        sts == [n \in SettingNames |->
                  IF n = "graphics_api"
                  THEN ApplyPerGameCombo(c.settings[n], c.ui.api_index)
                  ELSE IF n = "physical_device"
                  THEN ApplyPerGameCombo(c.settings[n], c.ui.device_index)
                  ELSE box(n)]
    IN  [c EXCEPT !.settings = sts,
                  !.jit = IF cfg_global THEN c.ui.checked["toggle_shader_jit"] ELSE @]

\* the dialog with Settings::values, as one value
Dialog ==
    [ui |-> ui, settings |-> settings, jit |-> use_shader_jit, trackers |-> trackers,
     discovered |-> physical_devices_discovered, vis_index |-> visibility_index]

\* the state an operation leaves behind
Becomes(c, op) ==
    /\ ui' = c.ui
    /\ settings' = c.settings
    /\ use_shader_jit' = c.jit
    /\ trackers' = c.trackers
    /\ physical_devices_discovered' = c.discovered
    /\ visibility_index' = c.vis_index
    /\ lastOp' = op
    /\ UNCHANGED <<cfg_global, powered_on, vulkan_ok>>
    /\ GraphicsFrame

InitialSetting(value, custom, use_global) ==
    [value |-> value, custom |-> custom, use_global |-> use_global]

GraphicsInit ==
    /\ cfg_global \in BOOLEAN
    /\ powered_on \in BOOLEAN
    /\ vulkan_ok \in BOOLEAN
    /\ \E api \in GraphicsAPIs, custom_api \in GraphicsAPIs,
          api_global \in BOOLEAN, others_global \in BOOLEAN, custom_bool \in BOOLEAN :
          settings = [n \in SettingNames |->
                        IF n = "graphics_api" THEN InitialSetting(api, custom_api, api_global)
                        ELSE IF n = "physical_device" THEN InitialSetting(0, 1, others_global)
                        ELSE InitialSetting(TRUE, custom_bool, others_global)]
    /\ use_shader_jit = TRUE
    /\ gphase = "none"
    /\ ui = NoUi
    /\ trackers = [n \in BoolSettings |-> "Global"]
    /\ physical_devices_discovered = FALSE
    /\ visibility_index = NotCalled
    /\ lastOp = "none"

\* global configuration with no dialog open and graphics_api = api
GraphicsAt(api) ==
    /\ cfg_global = TRUE
    /\ powered_on = FALSE
    /\ vulkan_ok = TRUE
    /\ settings = [n \in SettingNames |->
                     IF n = "graphics_api" THEN InitialSetting(api, api, TRUE)
                     ELSE IF n = "physical_device" THEN InitialSetting(0, 1, TRUE)
                     ELSE InitialSetting(TRUE, FALSE, TRUE)]
    /\ use_shader_jit = TRUE
    /\ gphase = "none"
    /\ ui = NoUi
    /\ trackers = [n \in BoolSettings |-> "Global"]
    /\ physical_devices_discovered = FALSE
    /\ visibility_index = NotCalled
    /\ lastOp = "none"

\* the state of the graphics part while another part is explored
GraphicsIdle == GraphicsAt(GraphicsAPI_OpenGL)

\* new ConfigureGraphics(parent)
NewConfigureGraphics ==
    /\ gphase = "none"
    /\ gphase' = "open"
    /\ Becomes(ConfigureGraphicsCtor(
           [Dialog EXCEPT !.discovered = FALSE,
                          !.vis_index = NotCalled,
                          !.trackers = [n \in BoolSettings |-> "Global"]]),
               "ConfigureGraphics")

\* ConfigureGraphics::~ConfigureGraphics
DeleteConfigureGraphics ==
    /\ gphase = "open"
    /\ gphase' = "none"
    /\ Becomes([Dialog EXCEPT !.ui = NoUi], "~ConfigureGraphics")

\* a call of ConfigureGraphics::SetConfiguration
CallSetConfiguration ==
    /\ gphase = "open"
    /\ UNCHANGED gphase
    /\ Becomes(SetConfiguration(Dialog), "SetConfiguration")

\* a call of ConfigureGraphics::ApplyConfiguration
CallApplyConfiguration ==
    /\ gphase = "open"
    /\ UNCHANGED gphase
    /\ Becomes(ApplyConfiguration(Dialog), "ApplyConfiguration")

\* ConfigureGraphics::RetranslateUI: ui->retranslateUi(this) sets texts only
RetranslateUI ==
    /\ gphase = "open"
    /\ UNCHANGED gphase
    /\ Becomes(Dialog, "RetranslateUI")

\* the user picks an item of graphics_api_combo (a separator cannot be picked)
UserSelectsApi ==
    /\ gphase = "open"
    /\ ui.enabled["graphics_api_combo"] /\ ui.enabled["graphics_api_group"]
    /\ \E i \in 0..(ui.api_count - 1) :
          /\ cfg_global \/ i # USE_GLOBAL_SEPARATOR_INDEX
          /\ Becomes(SetApiIndex(Dialog, i), "currentIndexChanged")
    /\ UNCHANGED gphase

\* the user clicks toggle_hw_shader or toggle_vsync_new
UserToggles ==
    /\ gphase = "open"
    /\ \E box \in {"toggle_hw_shader", "toggle_vsync_new"} :
          /\ ui.enabled[box]
          /\ Becomes(SetChecked(Dialog, box, ~ui.checked[box]), "toggled")
    /\ UNCHANGED gphase

\* the indexes a currentIndexChanged signal can carry: -1 (nothing selected) and
\* every position of a combo box of three APIs behind the two per-game entries
SlotIndexes == (0 - 1)..(USE_GLOBAL_OFFSET + GraphicsAPI_Vulkan)

\* the slot ConfigureGraphics::SetPhysicalDeviceComboVisibility run on its own
CallSetPhysicalDeviceComboVisibility ==
    /\ gphase = "open"
    /\ UNCHANGED gphase
    /\ \E index \in SlotIndexes :
          Becomes([Dialog EXCEPT
                     !.ui = SetPhysicalDeviceComboVisibility(ui, settings, index),
                     !.vis_index = index],
                  "SetPhysicalDeviceComboVisibility")

NextGraphics ==
    \/ NewConfigureGraphics \/ DeleteConfigureGraphics
    \/ CallSetConfiguration \/ CallApplyConfiguration \/ RetranslateUI
    \/ UserSelectsApi \/ UserToggles

\* the dialog with its slot SetPhysicalDeviceComboVisibility run on every index
NextVisibility ==
    \/ NewConfigureGraphics \/ DeleteConfigureGraphics
    \/ UserSelectsApi \/ CallSetPhysicalDeviceComboVisibility

(***************************************************************************)
(* GRenderWindow: geometry backup and render target.                       *)
(***************************************************************************)
Windows == {"primary", "secondary"}

\* the size resize(kScreenTopWidth, kScreenTopHeight + kScreenBottomHeight) gives
InitSize == 1

WidgetSizes == 1..MaxSize

\* a QByteArray: what QWidget::saveGeometry writes, or bytes that are no geometry
EmptyByteArray == [valid |-> FALSE, size |-> 0]

\* QWidget::saveGeometry: the geometry serialised behind Qt's magic number
QWidget_saveGeometry(size) == [valid |-> TRUE, size |-> size]

\* QWidget::restoreGeometry: bytes that are no geometry are refused and the
\* widget stays as it is; a geometry larger than the screen is cut to it
QWidget_restoreGeometry(size, bytes) ==
    IF ~bytes.valid THEN size
    ELSE IF bytes.size > MaxSize THEN MaxSize ELSE bytes.size

\* the byte arrays a caller may pass to restoreGeometry: empty, or saved on a
\* screen that may have been larger
ByteArrays == {EmptyByteArray} \cup {QWidget_saveGeometry(z) : z \in 1..(MaxSize + 1)}

WindowAt(parents) ==
    /\ has_parent = parents
    /\ widget_geometry = [w \in Windows |-> MaxSize]
    /\ geometry = [w \in Windows |-> EmptyByteArray]
    /\ child_widget = [w \in Windows |-> "null"]
    /\ main_context = "null"
    /\ fault = "none"
    /\ backup_taken = [w \in Windows |-> EmptyByteArray]
    /\ saved = EmptyByteArray
    /\ wop = <<"none", "primary">>

\* the windows as constructed, inside the main window or on their own
WindowInit == \E parents \in [Windows -> BOOLEAN] : WindowAt(parents)

\* the state of the windows while another part is explored
WindowIdle == WindowAt([w \in Windows |-> TRUE])

\* GRenderWindow::BackupGeometry: the new value of the member geometry
BackupOf(size) == QWidget_saveGeometry(size)

\* GRenderWindow::BackupGeometry
BackupGeometry ==
    /\ fault # "crashed"
    /\ \E w \in Windows :
          /\ geometry' = [geometry EXCEPT ![w] = BackupOf(widget_geometry[w])]
          /\ backup_taken' = [backup_taken EXCEPT ![w] = QWidget_saveGeometry(widget_geometry[w])]
          /\ wop' = <<"BackupGeometry", w>>
    /\ saved' = EmptyByteArray
    /\ UNCHANGED <<has_parent, widget_geometry, child_widget, main_context, fault>>
    /\ WindowFrame

\* RestoreGeometry written like restoreGeometry: the restore followed by a backup
RestoreEffect_BacksUp(size, bytes) ==
    [size |-> QWidget_restoreGeometry(size, bytes),
     geometry |-> BackupOf(QWidget_restoreGeometry(size, bytes))]

\* GRenderWindow::RestoreGeometry: the widget's size and the member geometry after it
RestoreEffect(size, bytes) ==
    [size |-> QWidget_restoreGeometry(size, bytes), geometry |-> bytes]

\* GRenderWindow::RestoreGeometry
RestoreGeometry ==
    /\ fault # "crashed"
    /\ \E w \in Windows :
          LET r == RestoreEffect(widget_geometry[w], geometry[w])
          IN  /\ widget_geometry' = [widget_geometry EXCEPT ![w] = r.size]
              /\ geometry' = [geometry EXCEPT ![w] = r.geometry]
              /\ wop' = <<"RestoreGeometry", w>>
    /\ saved' = EmptyByteArray
    /\ UNCHANGED <<has_parent, child_widget, main_context, fault, backup_taken>>
    /\ WindowFrame

\* GRenderWindow::restoreGeometry(const QByteArray&)
restoreGeometry ==
    /\ fault # "crashed"
    /\ \E w \in Windows, g \in ByteArrays :
          LET size == QWidget_restoreGeometry(widget_geometry[w], g)
          IN  /\ widget_geometry' = [widget_geometry EXCEPT ![w] = size]
              /\ geometry' = [geometry EXCEPT ![w] = BackupOf(size)]
              /\ backup_taken' = [backup_taken EXCEPT ![w] = QWidget_saveGeometry(size)]
              /\ wop' = <<"restoreGeometry", w>>
    /\ saved' = EmptyByteArray
    /\ UNCHANGED <<has_parent, child_widget, main_context, fault>>
    /\ WindowFrame

\* saveGeometry answering with the current geometry whether or not there is a parent
SaveResult_AlwaysCurrent(parented, size, backup) ==
    QWidget_saveGeometry(size)

\* GRenderWindow::saveGeometry: the value it returns
SaveResult(parented, size, backup) ==
    IF ~parented THEN QWidget_saveGeometry(size) ELSE backup

\* GRenderWindow::saveGeometry
saveGeometry ==
    /\ fault # "crashed"
    /\ \E w \in Windows :
          /\ saved' = SaveResult(has_parent[w], widget_geometry[w], geometry[w])
          /\ wop' = <<"saveGeometry", w>>
    /\ UNCHANGED <<has_parent, widget_geometry, geometry, child_widget, main_context, fault,
                   backup_taken>>
    /\ WindowFrame

\* GRenderWindow::CreateSharedContext: under OpenGL main_context is cast to
\* OpenGLSharedContext and used; TRUE when that cast is to the wrong type
CastIsBad(api, ctx) ==
    api = GraphicsAPI_OpenGL /\ ctx # "OpenGLSharedContext"

\* GRenderWindow::InitRenderTarget for the answers of
\* QOpenGLContext::supportsThreadedOpenGL() and gladLoadGL()/GLAD_GL_VERSION_4_3.
\* The result is [ok, child, ctx, bad]: the return value, child_widget,
\* main_context and whether main_context was used through a wrong cast.
InitRenderTargetResult(api, child, ctx, threaded_ok, load_ok) ==
    CASE api = GraphicsAPI_Software ->
           [ok |-> TRUE, child |-> "Software", ctx |-> "DummyContext", bad |-> FALSE]
      [] api = GraphicsAPI_Vulkan ->
           [ok |-> TRUE, child |-> "Vulkan", ctx |-> "DummyContext", bad |-> FALSE]
      [] OTHER ->
           IF ~threaded_ok
           THEN [ok |-> FALSE, child |-> child, ctx |-> ctx, bad |-> FALSE]
           ELSE LET ctx1 == IF ctx = "null" THEN "OpenGLSharedContext" ELSE ctx
                IN  [ok |-> load_ok, child |-> "OpenGL", ctx |-> ctx1,
                     bad |-> CastIsBad(api, ctx1)]

\* GRenderWindow::InitRenderTarget
InitRenderTarget ==
    /\ fault # "crashed"
    /\ \E w \in Windows, threaded_ok \in BOOLEAN, load_ok \in BOOLEAN :
          LET r == InitRenderTargetResult(GetValue(settings["graphics_api"]), child_widget[w],
                                          main_context, threaded_ok, load_ok)
          IN  /\ child_widget' = [child_widget EXCEPT ![w] = r.child]
              /\ main_context' = r.ctx
              /\ IF r.bad
                 THEN \E outcome \in {"bad_cast", "crashed"} : fault' = outcome
                 ELSE UNCHANGED fault
              /\ IF r.ok
                 THEN /\ widget_geometry' = [widget_geometry EXCEPT ![w] = InitSize]
                      /\ geometry' = [geometry EXCEPT ![w] = BackupOf(InitSize)]
                      /\ backup_taken' =
                            [backup_taken EXCEPT ![w] = QWidget_saveGeometry(InitSize)]
                 ELSE UNCHANGED <<widget_geometry, geometry, backup_taken>>
              /\ wop' = <<"InitRenderTarget", w>>
    /\ saved' = EmptyByteArray
    /\ UNCHANGED has_parent
    /\ WindowFrame

\* GRenderWindow::ReleaseRenderTarget
ReleaseRenderTarget ==
    /\ fault # "crashed"
    /\ \E w \in Windows :
          /\ child_widget' = [child_widget EXCEPT ![w] = "null"]
          /\ wop' = <<"ReleaseRenderTarget", w>>
    /\ main_context' = "null"
    /\ saved' = EmptyByteArray
    /\ UNCHANGED <<has_parent, widget_geometry, geometry, fault, backup_taken>>
    /\ WindowFrame

\* the user resizes a window
UserResizes ==
    /\ fault # "crashed"
    /\ \E w \in Windows, size \in WidgetSizes :
          /\ size # widget_geometry[w]
          /\ widget_geometry' = [widget_geometry EXCEPT ![w] = size]
          /\ wop' = <<"resizeEvent", w>>
    /\ saved' = EmptyByteArray
    /\ UNCHANGED <<has_parent, geometry, child_widget, main_context, fault, backup_taken>>
    /\ WindowFrame

\* the main window takes the render window into its layout or releases it
\* (QWidget::setParent)
SetParent ==
    /\ fault # "crashed"
    /\ \E w \in Windows :
          /\ has_parent' = [has_parent EXCEPT ![w] = ~has_parent[w]]
          /\ wop' = <<"setParent", w>>
    /\ saved' = EmptyByteArray
    /\ UNCHANGED <<widget_geometry, geometry, child_widget, main_context, fault, backup_taken>>
    /\ WindowFrame

\* the uses a window makes of the static main_context
ContextOps == {"MakeCurrent", "DoneCurrent", "CreateSharedContext"}

\* what a use of main_context finds: "ok", a null pointer or an object of
\* another type than the one it is cast to. MakeCurrent and DoneCurrent call a
\* virtual function through the pointer; CreateSharedContext dereferences it
\* only under OpenGL, through static_cast<OpenGLSharedContext*>.
ContextUse(op, api, ctx) ==
    IF op = "CreateSharedContext"
    THEN IF api # GraphicsAPI_OpenGL THEN "ok"
         ELSE IF ctx = "null" THEN "null_deref"
         ELSE IF CastIsBad(api, ctx) THEN "bad_cast"
         ELSE "ok"
    ELSE IF ctx = "null" THEN "null_deref" ELSE "ok"

\* GRenderWindow::MakeCurrent, DoneCurrent and CreateSharedContext run by a
\* window that has a child widget; a null or wrongly cast pointer is undefined
\* behaviour: the program crashes or goes on
UseContext ==
    /\ fault # "crashed"
    /\ \E w \in Windows, op \in ContextOps :
          /\ child_widget[w] # "null"
          /\ LET found == ContextUse(op, GetValue(settings["graphics_api"]), main_context)
             IN  IF found = "ok" THEN UNCHANGED fault
                 ELSE \E outcome \in {found, "crashed"} : fault' = outcome
          /\ wop' = <<op, w>>
    /\ saved' = EmptyByteArray
    /\ UNCHANGED <<has_parent, widget_geometry, geometry, child_widget, main_context,
                   backup_taken>>
    /\ WindowFrame

\* Settings::values.graphics_api assigned another API (ApplyConfiguration of the
\* graphics dialog) while the render windows exist
ChangeGraphicsApi ==
    /\ fault # "crashed"
    /\ \E api \in GraphicsAPIs :
          /\ api # GetValue(settings["graphics_api"])
          /\ settings' = [settings EXCEPT !["graphics_api"] = SetValue(@, api)]
    /\ wop' = <<"ApplyConfiguration", "primary">>
    /\ saved' = EmptyByteArray
    /\ UNCHANGED <<has_parent, widget_geometry, geometry, child_widget, main_context, fault,
                   backup_taken>>
    /\ UNCHANGED <<dvars, evars, ivars, cfg_global, powered_on, vulkan_ok, use_shader_jit,
                   gphase, ui, trackers, physical_devices_discovered, lastOp,
                   visibility_index>>

NextWindow ==
    \/ BackupGeometry \/ RestoreGeometry \/ restoreGeometry \/ saveGeometry
    \/ InitRenderTarget \/ ReleaseRenderTarget \/ UserResizes \/ SetParent

(***************************************************************************)
(* GRenderWindow: mouse and touch events.                                  *)
(***************************************************************************)
\* QMouseEvent::source()
MouseSources == {"MouseEventNotSynthesized", "MouseEventSynthesizedBySystem",
                 "MouseEventSynthesizedByQt"}

\* QMouseEvent::button()
MouseButtons == {"LeftButton", "RightButton", "MiddleButton"}

\* a coordinate of QMouseEvent::pos() or of a touch point, in widget pixels
Positions == (0 - 1)..1

\* devicePixelRatioF()
PixelRatios == {1, 2}

\* GRenderWindow::ScaleTouch on one coordinate: scaled by the pixel ratio,
\* never below 0
ScaleTouch(pos, pixel_ratio) ==
    IF pos * pixel_ratio > 0 THEN pos * pixel_ratio ELSE 0

\* Framebuffer coordinates: the touch screen begins at TouchscreenFirst
TouchscreenFirst == 1

\* EmuWindow::IsWithinTouchscreen
IsWithinTouchscreen(x) == x >= TouchscreenFirst

\* EmuWindow::ClipToTouchScreen
ClipToTouchScreen(x) == IF x < TouchscreenFirst THEN TouchscreenFirst ELSE x

\* the input state with one more call in the log of the running handler
Called(st, fn) == [st EXCEPT !.calls = @ \cup {fn}]

\* EmuWindow::TouchPressed
TouchPressed(st, x) ==
    LET st1 == Called(st, "TouchPressed")
    IN  IF ~IsWithinTouchscreen(x) THEN st1
        ELSE [st1 EXCEPT !.touch = [pressed |-> TRUE, x |-> x]]

\* EmuWindow::TouchMoved
TouchMoved(st, x) ==
    LET st1 == Called(st, "TouchMoved")
        x1 == IF IsWithinTouchscreen(x) THEN x ELSE ClipToTouchScreen(x)
    IN  IF ~st.touch.pressed THEN st1
        ELSE [st1 EXCEPT !.touch = [pressed |-> TRUE, x |-> x1]]

\* EmuWindow::TouchReleased
TouchReleased(st) ==
    [Called(st, "TouchReleased") EXCEPT !.touch = [pressed |-> FALSE, x |-> 0]]

\* InputCommon::MotionEmu::BeginTilt
BeginTilt(st, x) ==
    [Called(st, "BeginTilt") EXCEPT !.tilt = [active |-> TRUE, x |-> x]]

\* InputCommon::MotionEmu::Tilt
Tilt(st, x) ==
    LET st1 == Called(st, "Tilt")
    IN  IF ~st.tilt.active THEN st1 ELSE [st1 EXCEPT !.tilt.x = x]

\* InputCommon::MotionEmu::EndTilt
EndTilt(st) ==
    [Called(st, "EndTilt") EXCEPT !.tilt = [active |-> FALSE, x |-> 0]]

\* emit MouseActivity()
EmitMouseActivity(st) == Called(st, "MouseActivity")

\* mousePressEvent handling an event whatever its source
MousePress_AnySource(st, source, button, pos, pixel_ratio) ==
    IF button = "LeftButton"
    THEN EmitMouseActivity(TouchPressed(st, ScaleTouch(pos, pixel_ratio)))
    ELSE IF button = "RightButton"
    THEN EmitMouseActivity(BeginTilt(st, pos))
    ELSE EmitMouseActivity(st)

\* GRenderWindow::mousePressEvent
MousePress(st, source, button, pos, pixel_ratio) ==
    IF source = "MouseEventSynthesizedBySystem" THEN st
    ELSE IF button = "LeftButton"
    THEN EmitMouseActivity(TouchPressed(st, ScaleTouch(pos, pixel_ratio)))
    ELSE IF button = "RightButton"
    THEN EmitMouseActivity(BeginTilt(st, pos))
    ELSE EmitMouseActivity(st)

\* GRenderWindow::mouseMoveEvent
MouseMove(st, source, pos, pixel_ratio) ==
    IF source = "MouseEventSynthesizedBySystem" THEN st
    ELSE EmitMouseActivity(Tilt(TouchMoved(st, ScaleTouch(pos, pixel_ratio)), pos))

\* GRenderWindow::mouseReleaseEvent
MouseRelease(st, source, button) ==
    IF source = "MouseEventSynthesizedBySystem" THEN st
    ELSE IF button = "LeftButton" THEN EmitMouseActivity(TouchReleased(st))
    ELSE IF button = "RightButton" THEN EmitMouseActivity(EndTilt(st))
    ELSE EmitMouseActivity(st)

\* GRenderWindow::TouchBeginEvent: the position of the first touch point
TouchBeginEvent(st, pos, pixel_ratio) ==
    TouchPressed(st, ScaleTouch(pos, pixel_ratio))

\* GRenderWindow::TouchUpdateEvent: pos is the average of the active touch points
TouchUpdateEvent(st, pos, pixel_ratio) ==
    TouchMoved(st, ScaleTouch(pos, pixel_ratio))

\* GRenderWindow::TouchEndEvent
TouchEndEvent(st) == TouchReleased(st)

\* QEvent::type() of the events GRenderWindow::event is given
EventTypes == {"TouchBegin", "TouchUpdate", "TouchEnd", "TouchCancel", "Other"}

\* GRenderWindow::event
Event(st, type, pos, pixel_ratio) ==
    CASE type = "TouchBegin" -> TouchBeginEvent(st, pos, pixel_ratio)
      [] type = "TouchUpdate" -> TouchUpdateEvent(st, pos, pixel_ratio)
      [] type \in {"TouchEnd", "TouchCancel"} -> TouchEndEvent(st)
      [] OTHER -> st

\* touch state, tilt state and an empty call log, as a handler finds them
InputState == [touch |-> touch, tilt |-> tilt, calls |-> {}]

\* the state a handler leaves behind
Handled(st, handler, source, button) ==
    /\ touch' = st.touch
    /\ tilt' = st.tilt
    /\ icalls' = st.calls
    /\ ievent' = [handler |-> handler, source |-> source, button |-> button]

InputInit ==
    /\ touch = [pressed |-> FALSE, x |-> 0]
    /\ tilt = [active |-> FALSE, x |-> 0]
    /\ icalls = {}
    /\ ievent = [handler |-> "none", source |-> "none", button |-> "none"]

\* GRenderWindow::mousePressEvent
mousePressEvent ==
    /\ \E source \in MouseSources, button \in MouseButtons, pos \in Positions,
          pixel_ratio \in PixelRatios :
           Handled(MousePress(InputState, source, button, pos, pixel_ratio),
                   "mousePressEvent", source, button)
    /\ InputFrame

\* GRenderWindow::mouseMoveEvent
mouseMoveEvent ==
    /\ \E source \in MouseSources, pos \in Positions, pixel_ratio \in PixelRatios :
           Handled(MouseMove(InputState, source, pos, pixel_ratio),
                   "mouseMoveEvent", source, "NoButton")
    /\ InputFrame

\* GRenderWindow::mouseReleaseEvent
mouseReleaseEvent ==
    /\ \E source \in MouseSources, button \in MouseButtons :
           Handled(MouseRelease(InputState, source, button),
                   "mouseReleaseEvent", source, button)
    /\ InputFrame

\* GRenderWindow::event
event ==
    /\ \E type \in EventTypes, pos \in Positions, pixel_ratio \in PixelRatios :
           Handled(Event(InputState, type, pos, pixel_ratio), type, "none", "none")
    /\ InputFrame

NextInput ==
    \/ mousePressEvent \/ mouseMoveEvent \/ mouseReleaseEvent \/ event

(***************************************************************************)
(* The specifications.                                                     *)
(***************************************************************************)
InitDecoder == DecoderInit /\ EmuInit /\ GraphicsIdle /\ WindowIdle /\ InputInit

SpecDecoder == InitDecoder /\ [][NextDecoder]_vars

InitEmu == DecoderInit /\ EmuInit /\ GraphicsIdle /\ WindowIdle /\ InputInit

SpecEmu == InitEmu /\ [][NextEmu]_vars

\* The emulation thread is scheduled and every RunLoop and SingleStep call
\* returns: each step of run is taken once it stays possible. Nothing obliges
\* another thread to act or a wait to wake without a notification.
EmuFairness ==
    /\ WF_vars(Run_Prologue) /\ WF_vars(Run_LoopHead) /\ WF_vars(Run_CheckRunning)
    /\ WF_vars(Run_RunLoop) /\ WF_vars(Run_ReadRunning) /\ WF_vars(Run_ReadExecStep)
    /\ WF_vars(Run_CheckEntered) /\ WF_vars(Run_CheckExecStep)
    /\ WF_vars(Run_ClearExecStep) /\ WF_vars(Run_SingleStep)
    /\ WF_vars(Run_WaitLock) /\ WF_vars(Run_WaitPred) /\ WF_vars(Run_WaitBlock)
    /\ WF_vars(Run_Shutdown)

SpecEmuFair == InitEmu /\ [][NextEmu]_vars /\ EmuFairness

InitGraphics == DecoderInit /\ EmuInit /\ GraphicsInit /\ WindowIdle /\ InputInit

SpecGraphics == InitGraphics /\ [][NextGraphics]_vars

InitVisibility == DecoderInit /\ EmuInit /\ GraphicsInit /\ WindowIdle /\ InputInit

SpecVisibility == InitVisibility /\ [][NextVisibility]_vars

\* the render windows under each graphics API
InitWindow ==
    /\ DecoderInit /\ EmuInit /\ WindowInit /\ InputInit
    /\ \E api \in GraphicsAPIs : GraphicsAt(api)

SpecWindow == InitWindow /\ [][NextWindow]_vars

\* the render targets of the two windows and the shared main_context
NextContext ==
    \/ InitRenderTarget \/ ReleaseRenderTarget \/ UseContext \/ ChangeGraphicsApi

InitContext ==
    /\ DecoderInit /\ EmuInit /\ WindowIdle /\ InputInit
    /\ \E api \in GraphicsAPIs : GraphicsAt(api)

SpecContext == InitContext /\ [][NextContext]_vars

InitInput == DecoderInit /\ EmuInit /\ GraphicsIdle /\ WindowIdle /\ InputInit

SpecInput == InitInput /\ [][NextInput]_vars

(***************************************************************************)
(* Properties of the decoder.                                              *)
(***************************************************************************)
\* a ProcessRequest call has returned and its effects are in the state
Returned == dphase = "alive" /\ request # NoRequest

IsDecodeRequest(req) == req.codec = "DecodeAAC" /\ req.cmd = "EncodeDecode"

\* every byte of the len bytes starting at addr (addresses wrapping as u32)
\* lies in [FCRAM_PADDR, FCRAM_PADDR + FCRAM_SIZE)
InsideFCRAM(addr, len) ==
    \A k \in 0..(len - 1) : U32(addr + k) >= FCRAM_PADDR /\ U32(addr + k) < FCRAM_END

CodecTouched == \E c \in libCalls : c.fn \in {"Fill", "DecodeFrame"}

\* C1: with a valid decoder, Decode hands an input buffer to the codec library
\* only if every byte of [src_addr, src_addr + size) lies inside FCRAM; for any
\* other EncodeDecode request it returns no response and calls neither
\* aacDecoder_Fill nor aacDecoder_DecodeFrame.
C1_SourceInsideFCRAM ==
    (Returned /\ IsDecodeRequest(request) /\ IsValid) =>
        /\ (\E c \in libCalls : c.fn = "Fill") => InsideFCRAM(request.src_addr, request.size)
        /\ ~InsideFCRAM(request.src_addr, request.size) =>
              (response = NoResponse /\ ~CodecTouched)

Writes(ch) == {m \in mem : m.op = "write" /\ m.ch = ch}

DstOf(ch) == IF ch = 0 THEN request.dst_addr_ch0 ELSE request.dst_addr_ch1

\* [addr, addr + len) is wholly inside FCRAM, as a range of physical addresses
RangeInsideFCRAM(addr, len) == addr >= FCRAM_PADDR /\ addr + len <= FCRAM_END

\* C2: Decode writes decoded samples only inside FCRAM: a channel with a
\* non-empty stream whose range [dst, dst + 2 * sample_count) is not wholly
\* inside FCRAM is not written and Decode returns no response; every write that
\* is made covers exactly that range; a channel with an empty stream is never written.
C2_WritesInsideFCRAM ==
    (Returned /\ IsDecodeRequest(request)) =>
        \A ch \in {0, 1} :
            LET n == out_streams[ch + 1]
            IN  /\ \A m \in Writes(ch) :
                      /\ RangeInsideFCRAM(m.addr, m.len)
                      /\ m.addr = DstOf(ch) /\ m.len = 2 * n
                /\ (n > 0 /\ ~RangeInsideFCRAM(DstOf(ch), 2 * n)) =>
                      (Writes(ch) = {} /\ response = NoResponse)
                /\ n = 0 => Writes(ch) = {}

\* channel 1 is rejected after channel 0 has been written
C2_Witness ==
    /\ Returned /\ IsDecodeRequest(request)
    /\ Writes(0) # {}
    /\ out_streams[2] > 0
    /\ ~RangeInsideFCRAM(request.dst_addr_ch1, 2 * out_streams[2])
    /\ response = NoResponse

\* the requests ProcessRequest answers without Initalize or Decode
IsHeaderOnly(req) ==
    req.codec # "DecodeAAC" \/ req.cmd \notin {"Init", "EncodeDecode"}

\* C3: ProcessRequest returns no response when the codec is not DecodeAAC, and for
\* codec DecodeAAC when the command is none of Init, EncodeDecode, Unknown; for
\* Unknown it returns the request with header.result = 0. On these paths no codec
\* library call is made, no memory is touched and the handle is unchanged.
C3_HeaderPaths ==
    [][(dphase = "called" /\ dphase' = "alive" /\ IsHeaderOnly(request)) =>
          /\ (request.codec # "DecodeAAC" => response' = NoResponse)
          /\ (request.codec = "DecodeAAC" /\ request.cmd # "Unknown" => response' = NoResponse)
          /\ (request.codec = "DecodeAAC" /\ request.cmd = "Unknown" =>
                 response' = [tag |-> "copy", msg |-> [request EXCEPT !.result = 0]])
          /\ libCalls' = {}
          /\ mem' = {}
          /\ decoder' = decoder /\ libHandle' = libHandle
          /\ opens' = opens /\ closes' = closes]_vars

\* an Unknown request that came with result 1 is answered with result 0
C3_Witness ==
    /\ Returned
    /\ request.codec = "DecodeAAC" /\ request.cmd = "Unknown" /\ request.result = 1
    /\ response.tag = "copy" /\ response.msg.result = 0
    /\ IsValid

\* C4: with no decoder (IsValid() false) every EncodeDecode request of codec
\* DecodeAAC gets a response echoing codec, command and size with
\* num_channels = 2 and num_samples = 1024; memory and library are not touched.
C4_NoDecoderResponse ==
    (Returned /\ IsDecodeRequest(request) /\ ~IsValid) =>
        /\ response.tag = "decode"
        /\ response.codec = request.codec
        /\ response.cmd = request.cmd
        /\ response.size = request.size
        /\ response.num_channels = 2
        /\ response.num_samples = 1024
        /\ mem = {}
        /\ libCalls = {}

\* a request with addresses outside FCRAM is answered without a decoder
C4_Witness ==
    /\ Returned /\ IsDecodeRequest(request) /\ ~IsValid
    /\ request.src_addr < FCRAM_PADDR
    /\ request.dst_addr_ch0 < FCRAM_PADDR
    /\ response.tag = "decode"

\* C5: IsValid() is true exactly when an open handle is held; a failed
\* aacDecoder_SetParam in the constructor leaves the handle closed and IsValid()
\* false; every opened handle is closed at most once and, after destruction,
\* exactly once; no library call of a request is made on a closed or null handle.
C5_HandleLifecycle ==
    /\ dphase \in {"alive", "called"} => (IsValid <=> libHandle = "open")
    /\ (dphase # "unconstructed" /\ libAnswers.libinfo_ok /\ libAnswers.open_ok
            /\ ~libAnswers.setparam_ok) => (libHandle = "closed" /\ ~IsValid)
    /\ closes <= opens
    /\ dphase = "destroyed" => closes = opens
    /\ \A c \in libCalls : c.on = "open"

\* a request has been handled after the constructor closed the handle
C5_Witness ==
    /\ Returned
    /\ libHandle = "closed" /\ opens = 1 /\ closes = 1
    /\ request.cmd = "Init" /\ request.codec = "DecodeAAC"

\* a bit is set in a flags word
HasBit(word, bit) == BitAnd(word, bit) = bit

\* C6: an Init request handled with a valid decoder makes Clear call
\* aacDecoder_DecodeFrame with the FLUSH, INTR and CONCEAL bits all set.
C6_ClearFlagsSet ==
    (Returned /\ request.codec = "DecodeAAC" /\ request.cmd = "Init" /\ IsValid) =>
        /\ Cardinality({AACDEC_FLUSH, AACDEC_INTR, AACDEC_CONCEAL}) = 3
        /\ \E c \in libCalls :
              /\ c.fn = "DecodeFrame"
              /\ HasBit(c.flags, AACDEC_FLUSH)
              /\ HasBit(c.flags, AACDEC_INTR)
              /\ HasBit(c.flags, AACDEC_CONCEAL)

(***************************************************************************)
(* Properties of EmuThread::run.                                           *)
(***************************************************************************)
\* C7: DebugModeLeft and DebugModeEntered strictly alternate, the first of them
\* is DebugModeLeft, and RunLoop and SingleStep are called only while the most
\* recent of the two signals is DebugModeLeft.
C7_SignalsAlternate ==
    /\ lastSignal # "none" => prevSignal # lastSignal
    /\ (lastSignal # "none" /\ prevSignal = "none") => lastSignal = "DebugModeLeft"
    /\ epc \in {"run_loop", "single_step"} => lastSignal = "DebugModeLeft"

\* SingleStep is about to be called in an iteration that emitted no DebugModeLeft,
\* because the RunLoop iteration before it saw exec_step set
C7_Witness ==
    /\ epc = "single_step"
    /\ was_active
    /\ prevSignal = "DebugModeEntered"
    /\ lastSignal = "DebugModeLeft"
    /\ lastResult = "Success"

\* C8: Shutdown is called exactly once when run has left its loop and never
\* before; no RunLoop or SingleStep call follows it; the loop is left only on
\* stop_run or on ShutdownRequested, and in the latter case
\* ErrorThrown(ShutdownRequested) has been emitted before Shutdown and the
\* iteration emitted no DebugModeEntered.
C8_ShutdownOnExit ==
    /\ shutdowns <= 1
    /\ (epc = "done") <=> (shutdowns = 1)
    /\ ~lateCall
    /\ epc \in {"shutdown", "done"} => (stop_run \/ lastResult = "ShutdownRequested")
    /\ lastResult = "ShutdownRequested" =>
          /\ epc \in {"shutdown", "done"}
          /\ lastError = "ShutdownRequested"
          /\ ~iterEntered

\* run has returned after RunLoop asked for the shutdown, with stop_run never set
C8_Witness ==
    /\ epc = "done"
    /\ shutdowns = 1
    /\ lastResult = "ShutdownRequested"
    /\ ~stop_run
    /\ prevSignal = "DebugModeEntered"

SettingsChange == settings' # settings \/ use_shader_jit' # use_shader_jit

\* The dialog as a pure settings binding: Settings::values changes only inside
\* ApplyConfiguration; the constructor, SetConfiguration, RetranslateUI and the
\* change handlers leave every setting unchanged.
C9_OnlyApplyChanges ==
    [][SettingsChange => lastOp' = "ApplyConfiguration"]_vars

\* C9: Settings::values changes only inside ApplyConfiguration, or in the
\* constructor when creating the Vulkan instance fails, and then the one change
\* is that graphics_api is assigned GraphicsAPI::OpenGL; SetConfiguration,
\* RetranslateUI, the destructor and the change handlers change no setting.
C9_OnlyApplyOrVulkanFallback ==
    [][SettingsChange =>
          \/ lastOp' = "ApplyConfiguration"
          \/ /\ lastOp' = "ConfigureGraphics"
             /\ ~vulkan_ok
             /\ use_shader_jit' = use_shader_jit
             /\ settings' = [settings EXCEPT
                               !["graphics_api"] = SetValue(@, GraphicsAPI_OpenGL)]]_vars

\* the constructor has run on a machine without Vulkan, where the per-game
\* graphics_api was Vulkan before: the Vulkan item is gone from the combo box and
\* the API in effect is OpenGL
C9_Witness ==
    /\ lastOp = "ConfigureGraphics"
    /\ ~vulkan_ok
    /\ ~cfg_global
    /\ ~UsingGlobal(settings["graphics_api"])
    /\ GetGlobalValue(settings["graphics_api"]) = GraphicsAPI_Vulkan
    /\ GetValue(settings["graphics_api"]) = GraphicsAPI_OpenGL
    /\ ui.api_count = USE_GLOBAL_OFFSET + 2

\* C10: saveGeometry on a window that has a parent returns the geometry captured
\* by the most recent backup (BackupGeometry, restoreGeometry(g) or the end of a
\* successful InitRenderTarget), on a top-level window it returns the current
\* widget geometry, and RestoreGeometry and saveGeometry leave the stored backup
\* unchanged.
C10_SaveGeometryReturnsBackup ==
    [][\A w \in Windows :
          /\ wop' = <<"saveGeometry", w>> =>
                /\ saved' = IF has_parent[w]
                            THEN backup_taken[w]
                            ELSE QWidget_saveGeometry(widget_geometry[w])
                /\ geometry' = geometry
          /\ wop' = <<"RestoreGeometry", w>> => geometry' = geometry]_vars

\* saveGeometry on a window inside the main window has returned the backup, which
\* is not the size the user has since given the window
C10_Witness ==
    /\ wop = <<"saveGeometry", "primary">>
    /\ has_parent["primary"]
    /\ saved.valid
    /\ saved = backup_taken["primary"]
    /\ saved # QWidget_saveGeometry(widget_geometry["primary"])

\* the API the claim calls in effect for a combo-box index: configuring globally
\* the entry at the index, per game the global API for index 0 (use global) and
\* otherwise the entry behind the two per-game entries
IndexMeansVulkan(index) ==
    IF cfg_global
    THEN index = GraphicsAPI_Vulkan
    ELSE \/ index = USE_GLOBAL_INDEX
            /\ GetGlobalValue(settings["graphics_api"]) = GraphicsAPI_Vulkan
         \/ index = USE_GLOBAL_OFFSET + GraphicsAPI_Vulkan

\* C11: after SetPhysicalDeviceComboVisibility(index) the physical-device group
\* and the SPIR-V check box are visible exactly when the API in effect for the
\* index is Vulkan; for every other index, the separator and -1 included, both
\* are hidden.
C11_VisibleIffVulkan ==
    (gphase = "open" /\ visibility_index # NotCalled) =>
        /\ ui.visible["physical_device_group"] <=> IndexMeansVulkan(visibility_index)
        /\ ui.visible["spirv_shader_gen"] <=> IndexMeansVulkan(visibility_index)

\* configuring per game with Vulkan as the global API, the slot has run on the
\* separator entry and hidden both controls
C11_Witness ==
    /\ gphase = "open"
    /\ ~cfg_global
    /\ GetGlobalValue(settings["graphics_api"]) = GraphicsAPI_Vulkan
    /\ visibility_index = USE_GLOBAL_SEPARATOR_INDEX
    /\ lastOp = "SetPhysicalDeviceComboVisibility"
    /\ ~ui.visible["physical_device_group"]
    /\ ~ui.visible["spirv_shader_gen"]

\* the controls SetupPerGameUI blocks, each with the setting it shows
BlockedControls ==
    {<<"graphics_api_group", "graphics_api">>,
     <<"graphics_api_combo", "graphics_api">>,
     <<"toggle_hw_shader", "use_hw_shader">>,
     <<"toggle_accurate_mul", "shaders_accurate_mul">>,
     <<"toggle_disk_shader_cache", "use_disk_shader_cache">>,
     <<"toggle_vsync_new", "use_vsync_new">>,
     <<"toggle_async_shaders", "async_shader_compilation">>,
     <<"toggle_async_present", "async_presentation">>,
     <<"physical_device_combo", "physical_device">>}

\* C12: configuring globally, once the constructor has finished every control
\* whose setting is overridden by the running game (UsingGlobal() false) is
\* disabled, whether or not the system is powered on.
C12_OverriddenControlsDisabled ==
    (gphase = "open" /\ cfg_global /\ lastOp = "ConfigureGraphics") =>
        \A p \in BlockedControls :
            ~UsingGlobal(settings[p[2]]) => ~ui.enabled[p[1]]

MouseHandlers == {"mousePressEvent", "mouseMoveEvent", "mouseReleaseEvent"}

TouchHandlers == {"TouchBegin", "TouchUpdate", "TouchEnd", "TouchCancel"}

\* C13: a mouse press, move or release event whose source is
\* MouseEventSynthesizedBySystem calls none of TouchPressed, TouchMoved,
\* TouchReleased, BeginTilt, Tilt and EndTilt, does not emit MouseActivity and
\* leaves the touch and tilt state as they are; so with only touch events and
\* synthesized mouse events delivered, the touch state changes in the touch
\* handlers alone.
C13_SynthesizedMouseIgnored ==
    [][/\ (ievent'.handler \in MouseHandlers
            /\ ievent'.source = "MouseEventSynthesizedBySystem") =>
              (icalls' = {} /\ touch' = touch /\ tilt' = tilt)
       /\ (touch' # touch /\ ievent'.source \in {"none", "MouseEventSynthesizedBySystem"}) =>
              ievent'.handler \in TouchHandlers]_vars

\* a touch is held, begun by a TouchBegin event, and the left-button release
\* synthesized by the system for the same gesture has just been ignored
C13_Witness ==
    /\ ievent = [handler |-> "mouseReleaseEvent",
                 source |-> "MouseEventSynthesizedBySystem", button |-> "LeftButton"]
    /\ touch.pressed
    /\ icalls = {}

\* the positions of run inside the else branch that waits on running_cv
WaitPcs == {"wait_lock", "wait_pred", "wait_block", "blocked", "wait_relock"}

C15_ContextValidWhenUsed ==
    [][\A w \in Windows, op \in ContextOps :
          (wop' = <<op, w>> /\ child_widget[w] # "null") =>
              /\ main_context # "null"
              /\ GetValue(settings["graphics_api"]) = GraphicsAPI_OpenGL =>
                    main_context = "OpenGLSharedContext"]_vars

====
